---- MODULE Spec2Model ----
(***************************************************************************)
(* Echoproxia record/replay proxy (createProxy): the per-activation        *)
(* mode/sequence state, the in-memory recordings and the write queue, the  *)
(* replay cursors, the initial clean-up and stop().                        *)
(*                                                                         *)
(* Strings that the code takes apart (request paths, file names) are       *)
(* sequences of tokens; a file path <recordingsDir>/<sequence>/<file> is   *)
(* the pair <<sequence, file>>.  Arrays that the code shares by reference  *)
(* (the in-memory list of a location and the recordingsArray of a queued   *)
(* write job) live in the heap `arrays` and are named by their index.      *)
(***************************************************************************)
EXTENDS Integers, Sequences, FiniteSets, TLC

\* ------------------------------------------------------------------ bounds
\* MaxOps bounds the inputs of one run: requests, setSequence calls, posts to
\* the control endpoint, failing file writes and the call of stop, in any mix.
MaxOps == 3
MaxInflight == 2
\* The longest response body followed byte by byte.
MaxBodyLen == 3
\* The number of file writes that fail in one run.
MaxWriteFailures == 1

\* --------------------------------------------------------------- universe
Seqs == {"s1", "s2"}
defaultSequenceName == "s1"
PathA == <<"/", "a">>
PathB == <<"/", "b">>
Paths == {PathA, PathB}
Overrides == {"undefined", "true", "false"}

\* ---------------------------------------------------------- pure helpers
SafeChars == {"a", "b", "_", ".", "-", ".echo", ".json"}

StripLeadingSlash(filePath) ==
  IF Len(filePath) > 0 /\ filePath[1] = "/" THEN Tail(filePath) ELSE filePath

ReplaceUnsafe(s) ==
  [i \in 1..Len(s) |-> IF s[i] \in SafeChars THEN s[i] ELSE "_"]

sanitizeFilename(filePath) ==
  <<"_">> \o ReplaceUnsafe(StripLeadingSlash(filePath)) \o <<".echo", ".json">>

EndsWithEchoJson(filename) ==
  /\ Len(filename) >= 2
  /\ filename[Len(filename) - 1] = ".echo"
  /\ filename[Len(filename)] = ".json"

recordingFilenameOld(recordingFilenameNew) ==
  IF EndsWithEchoJson(recordingFilenameNew)
  THEN SubSeq(recordingFilenameNew, 1, Len(recordingFilenameNew) - 2) \o <<".json">>
  ELSE recordingFilenameNew

FileNames ==
  {sanitizeFilename(p) : p \in Paths}
    \cup {recordingFilenameOld(sanitizeFilename(p)) : p \in Paths}

FilePaths == Seqs \X FileNames

\* ------------------------------------------------------------ disk files
NoFile == [kind |-> "none"]
\* A file that is not valid JSON, one whose JSON is not an array, and one
\* that fs.readFile fails on with an error other than ENOENT.
Garbage == [kind |-> "garbage"]
NotArray == [kind |-> "object"]
Unreadable == [kind |-> "unreadable"]
JsonFile(items) == [kind |-> "json", items |-> items]

\* A faulty variant: without the Array.isArray check the parsed object is
\* handed on; it has no length and no first element to reply with.
readRecordingsAnyJson(file) ==
  IF file.kind = "json" THEN file.items
  ELSE IF file.kind = "object" THEN <<[path |-> <<>>]>>
  ELSE <<>>

\* readRecordings: ENOENT, any other read error, a parse error and a
\* non-array all give [].
readRecordings(file) ==
  IF file.kind = "json" THEN file.items ELSE <<>>

Interaction(p, status, body) ==
  [path |-> p, response |-> [status |-> status, body |-> body]]
NoBodyInteraction(p) == [path |-> p, response |-> [status |-> 200]]
NoResponseInteraction(p) == [path |-> p]

HasResponse(item) == "response" \in DOMAIN item
HasStringBody(item) == HasResponse(item) /\ "body" \in DOMAIN item.response

\* ------------------------------------------------------------------ state
VARIABLES
  currentRecordMode,            \* options.recordMode, the process-wide default
  currentSequenceName,
  activeSequenceEffectiveMode,  \* TRUE = record, FALSE = replay
  replayCounters,               \* [sequence -> [usedFilepath -> index]], absent = 0
  inMemoryRecordings,           \* [sequence -> [filename -> array ref, 0 = absent]]
  arrays,                       \* heap of interaction arrays, named by index
  writeQueue,                   \* <<[filePath, recordingsArray (a ref)]>>
  isWriting,
  isStopping,
  loop,                         \* processWriteQueue: where the loop stands
  disk,                         \* [file path -> file]
  reqs,                         \* in-flight requests, one per slot
  act,                          \* the setSequence call in progress
  cleanup,                      \* the initial clean-up IIFE
  listening,                    \* createProxy has resolved
  stopPc,                       \* stop(): none, waiting, closing, resolved
  nOps,                         \* inputs so far
  lastResponse,                 \* the response sent by the latest step, if any
  replayLog, windowBase,        \* history: replays answered per cursor since the
                                \* last activation or file change, and the cursor then
  uncleared,                    \* history: files of the sequence being cleared that
                                \* existed when the clear began and still exist
  enqueuedAfterStop,            \* history: a job was queued after stop() was called
  cleared,                      \* history: sequences of which a record activation
                                \* has begun and under which no exchange has
                                \* completed since
  recordedLog,                  \* history: per file path, the bodies of the exchanges
                                \* completed under its sequence since the latest
                                \* record activation of the sequence began
  nWriteFailed,                 \* history: the file writes that have failed
  failedWrite,                  \* history: per file path, the job whose write failed
                                \* last and the list it was writing
  inbound,                      \* history: the requests routed, as they arrived,
                                \* where their method, query and body are followed
  codec                         \* one exchange followed through recording and
                                \* replay with its bytes and headers spelled out

proxyVars ==
  <<currentRecordMode, currentSequenceName, activeSequenceEffectiveMode,
    replayCounters, inMemoryRecordings, arrays, writeQueue, isWriting, isStopping,
    loop, disk, reqs, act, cleanup, listening, stopPc, nOps,
    lastResponse, replayLog, windowBase, uncleared, enqueuedAfterStop, cleared,
    recordedLog, nWriteFailed, failedWrite, inbound>>

vars ==
  <<currentRecordMode, currentSequenceName, activeSequenceEffectiveMode,
    replayCounters, inMemoryRecordings, arrays, writeQueue, isWriting, isStopping,
    loop, disk, reqs, act, cleanup, listening, stopPc, nOps,
    lastResponse, replayLog, windowBase, uncleared, enqueuedAfterStop, cleared,
    recordedLog, nWriteFailed, failedWrite, inbound, codec>>

Slots == 1..MaxInflight
CursorKeys == Seqs \X FilePaths

IdleReq == [pc |-> "idle"]
\* The construction counts as the first activation: the default sequence, no override.
IdleAct == [pc |-> "idle", name |-> defaultSequenceName, override |-> "undefined"]
LoopScheduled == [pc |-> "scheduled"]
LoopDead == [pc |-> "dead"]
NoResponseYet == [mode |-> "none"]

DiskWith(m) == [fp \in FilePaths |-> IF fp \in DOMAIN m THEN m[fp] ELSE NoFile]

NewA == sanitizeFilename(PathA)
OldA == recordingFilenameOld(NewA)
NewB == sanitizeFilename(PathB)
OldB == recordingFilenameOld(NewB)

\* Recordings found on disk at start-up: none; current and legacy files of a
\* location side by side; an empty current file, a legacy file with a stored
\* response that has no body, a file that is not JSON and a stored element
\* without a response object; a current file that holds a JSON object beside
\* a legacy file with a recording, and an unreadable current file beside a
\* legacy file that is not JSON.
InitialDisks ==
  { DiskWith(<<>>),
    DiskWith((<<"s1", NewA>> :> JsonFile(<<Interaction(PathA, 200, 101),
                                          Interaction(PathA, 201, 102)>>))
             @@ (<<"s1", OldA>> :> JsonFile(<<Interaction(PathA, 200, 201)>>))
             @@ (<<"s2", OldA>> :> JsonFile(<<Interaction(PathA, 200, 301)>>))),
    DiskWith((<<"s1", NewA>> :> JsonFile(<<>>))
             @@ (<<"s1", OldA>> :> JsonFile(<<Interaction(PathA, 200, 201),
                                             NoBodyInteraction(PathA)>>))
             @@ (<<"s2", NewA>> :> Garbage)
             @@ (<<"s2", OldA>> :> JsonFile(<<NoResponseInteraction(PathA)>>))
             @@ (<<"s1", NewB>> :> NotArray)
             @@ (<<"s1", OldB>> :> JsonFile(<<Interaction(PathB, 200, 202)>>))
             @@ (<<"s2", NewB>> :> Unreadable)
             @@ (<<"s2", OldB>> :> Garbage)) }

NoFailedWrite == [recordingsArray |-> 0, data |-> <<>>]

ZeroCounters == [s \in Seqs |-> [fp \in FilePaths |-> 0]]
FlatCounters(rc) == [k \in CursorKeys |-> rc[k[1]][k[2]]]
EmptyLog == [k \in CursorKeys |-> <<>>]

ProxyInit ==
  /\ currentRecordMode \in BOOLEAN
  /\ currentSequenceName = defaultSequenceName
  /\ activeSequenceEffectiveMode = currentRecordMode
  /\ replayCounters = ZeroCounters
  /\ inMemoryRecordings = [s \in Seqs |-> [f \in FileNames |-> 0]]
  /\ arrays = <<>>
  /\ writeQueue = <<>>
  /\ isWriting = FALSE
  /\ isStopping = FALSE
  /\ loop = LoopScheduled
  /\ disk \in InitialDisks
  /\ reqs = [r \in Slots |-> IdleReq]
  /\ act = IdleAct
  /\ cleanup = IF currentRecordMode THEN [pc |-> "readdir"] ELSE [pc |-> "done"]
  /\ listening = FALSE
  /\ stopPc = "none"
  /\ nOps = 0
  /\ lastResponse = NoResponseYet
  /\ replayLog = EmptyLog
  /\ windowBase = FlatCounters(ZeroCounters)
  /\ uncleared = {}
  /\ enqueuedAfterStop = FALSE
  /\ cleared = {}
  /\ recordedLog = [fp \in FilePaths |-> <<>>]
  /\ nWriteFailed = 0
  /\ failedWrite = [fp \in FilePaths |-> NoFailedWrite]
  /\ inbound = <<>>

\* In the runs of the proxy the exchange followed byte by byte stays aside.
CodecOff == [pc |-> "off"]

Init ==
  /\ ProxyInit
  /\ codec = CodecOff

\* A new window of the replay log: after an activation or a file change.
ResetWindow(rc) ==
  /\ replayLog' = EmptyLog
  /\ windowBase' = FlatCounters(rc)

\* ------------------------------------------------------- write pipeline
\* A faulty variant: the job is put at the front of the queue.
writeRecordingsToFileFront(filePath, recordingsArray) ==
  <<[filePath |-> filePath, recordingsArray |-> recordingsArray]>> \o writeQueue

\* writeRecordingsToFile: the job holds the array itself, not a copy of it.
writeRecordingsToFile(filePath, recordingsArray) ==
  Append(writeQueue, [filePath |-> filePath, recordingsArray |-> recordingsArray])

\* A faulty variant: the loop goes on only while jobs are waiting.
RescheduleLoopWhileQueued ==
  IF isStopping \/ writeQueue = <<>> THEN LoopDead ELSE LoopScheduled

\* The finally block of processWriteQueue: the next iteration is scheduled
\* only if stop() has not been called.
RescheduleLoop == IF isStopping THEN LoopDead ELSE LoopScheduled

\* A faulty variant: only the interaction added last is serialised.
stringifyLastOnly(recordingsArray) ==
  SubSeq(arrays[recordingsArray], Len(arrays[recordingsArray]),
         Len(arrays[recordingsArray]))

\* JSON.stringify(job.recordingsArray): the whole array the job refers to.
stringify(recordingsArray) == arrays[recordingsArray]

\* One iteration of processWriteQueue up to the start of fs.writeFile.  The
\* awaited fs.mkdir in between changes nothing that is kept here, so the
\* iteration is taken at the moment JSON.stringify reads the job's array: the
\* text written is the array as it is then, not as it was when it was queued.
processWriteQueue ==
  /\ loop.pc = "scheduled"
  /\ IF isWriting
     THEN /\ loop' = LoopDead
          /\ UNCHANGED <<writeQueue, isWriting>>
     ELSE IF writeQueue = <<>>
     THEN /\ loop' = RescheduleLoop
          /\ UNCHANGED <<writeQueue, isWriting>>
     ELSE /\ writeQueue' = Tail(writeQueue)
          /\ isWriting' = TRUE
          /\ loop' = [pc |-> "writeFile", job |-> Head(writeQueue),
                      data |-> stringify(Head(writeQueue).recordingsArray)]
  /\ lastResponse' = NoResponseYet
  /\ UNCHANGED <<currentRecordMode, currentSequenceName,
                 activeSequenceEffectiveMode, replayCounters,
                 inMemoryRecordings, arrays, isStopping, disk, reqs, act,
                 cleanup, listening, stopPc, nOps, replayLog, windowBase,
                 uncleared, enqueuedAfterStop, cleared, recordedLog,
                 nWriteFailed, failedWrite, inbound, codec>>

\* fs.writeFile has completed: the file holds the whole list.
WriteFileDone ==
  /\ loop.pc = "writeFile"
  /\ disk' = [disk EXCEPT ![loop.job.filePath] = JsonFile(loop.data)]
  /\ isWriting' = FALSE
  /\ loop' = RescheduleLoop
  /\ ResetWindow(replayCounters)
  /\ lastResponse' = NoResponseYet
  /\ UNCHANGED <<currentRecordMode, currentSequenceName,
                 activeSequenceEffectiveMode, replayCounters,
                 inMemoryRecordings, arrays, writeQueue, isStopping, reqs, act,
                 cleanup, listening, stopPc, uncleared, nOps,
                 enqueuedAfterStop, cleared, recordedLog, nWriteFailed, failedWrite, inbound, codec>>

\* A faulty variant: the flag is cleared after a successful write only.
WriteFileFailFlagKept ==
  /\ loop.pc = "writeFile"
  /\ nWriteFailed < MaxWriteFailures
  /\ nWriteFailed' = nWriteFailed + 1
  /\ failedWrite' =
       [failedWrite EXCEPT ![loop.job.filePath] =
          [recordingsArray |-> loop.job.recordingsArray, data |-> loop.data]]
  /\ loop' = RescheduleLoop
  /\ lastResponse' = NoResponseYet
  /\ UNCHANGED <<currentRecordMode, currentSequenceName,
                 activeSequenceEffectiveMode, replayCounters,
                 inMemoryRecordings, arrays, writeQueue, isWriting, isStopping,
                 disk, reqs, act, cleanup, listening, stopPc, replayLog,
                 windowBase, uncleared, enqueuedAfterStop, cleared, recordedLog,
                 nOps, inbound, codec>>

\* fs.mkdir or fs.writeFile has failed: the error is logged, the file is as before.
WriteFileFail ==
  /\ loop.pc = "writeFile"
  /\ nWriteFailed < MaxWriteFailures
  /\ nWriteFailed' = nWriteFailed + 1
  /\ failedWrite' =
       [failedWrite EXCEPT ![loop.job.filePath] =
          [recordingsArray |-> loop.job.recordingsArray, data |-> loop.data]]
  /\ isWriting' = FALSE
  /\ loop' = RescheduleLoop
  /\ lastResponse' = NoResponseYet
  /\ UNCHANGED <<currentRecordMode, currentSequenceName,
                 activeSequenceEffectiveMode, replayCounters,
                 inMemoryRecordings, arrays, writeQueue, isStopping, disk,
                 reqs, act, cleanup, listening, stopPc, replayLog, windowBase,
                 uncleared, enqueuedAfterStop, cleared, recordedLog, nOps,
                 inbound, codec>>

\* -------------------------------------------------------------- requests
CanAccept == listening /\ stopPc \in {"none", "waiting"}

\* The main middleware reads activeSequenceEffectiveMode and takes one branch.
\* handleReplay builds its file paths from currentSequenceName before its
\* first await; the record branch contacts the target at once.
NewRequest(p) ==
  IF activeSequenceEffectiveMode = FALSE
  THEN [pc |-> "readNew", mode |-> "replay", path |-> p,
        routedSeq |-> currentSequenceName, upstream |-> FALSE, body |-> 0,
        id |-> nOps + 1]
  ELSE [pc |-> "forward", mode |-> "record", path |-> p,
        routedSeq |-> currentSequenceName, upstream |-> TRUE, body |-> 0,
        id |-> nOps + 1]

RoutePath(p) ==
  /\ CanAccept
  /\ nOps < MaxOps
  /\ \E r \in Slots :
       /\ reqs[r].pc = "idle"
       /\ \A q \in Slots : q < r => reqs[q].pc # "idle"
       /\ reqs' = [reqs EXCEPT ![r] = NewRequest(p)]
  /\ nOps' = nOps + 1
  /\ lastResponse' = NoResponseYet
  /\ UNCHANGED <<currentRecordMode, currentSequenceName,
                 activeSequenceEffectiveMode, replayCounters,
                 inMemoryRecordings, arrays, writeQueue, isWriting, isStopping,
                 loop, disk, act, cleanup, listening, stopPc, replayLog,
                 windowBase, uncleared, enqueuedAfterStop, cleared,
                 recordedLog, nWriteFailed, failedWrite, codec>>

\* A request whose method, query string and body are not followed.
Route(p) == RoutePath(p) /\ UNCHANGED inbound

Methods == {"GET", "POST"}
Searches == {<<>>, <<"?", "x">>}
RequestBodies == {0, 1}
InboundRequests ==
  [method : Methods, pathname : Paths, search : Searches, body : RequestBodies]

\* A faulty variant: the query string is part of the path.
reqOriginalUrl(req) == req.pathname \o req.search

\* req.path: the path name of the URL, without the query string.
reqPath(req) == req.pathname

\* A request followed with all it carries: the middleware and handleReplay
\* read req.path of it and nothing else.
RouteInbound(req) ==
  /\ RoutePath(reqPath(req))
  /\ inbound' = Append(inbound, req)

recordingFilepathNew(req) == <<req.routedSeq, sanitizeFilename(req.path)>>
recordingFilepathOld(req) ==
  <<req.routedSeq, recordingFilenameOld(sanitizeFilename(req.path))>>

\* A faulty variant: the cursor is left where it was.
NextIndexStale(currentIndex) == currentIndex

\* sequenceReplayState[usedFilepath] = currentIndex + 1
NextIndex(currentIndex) == currentIndex + 1

\* A faulty variant: the cursor is the value it had before the files were
\* awaited, so that requests suspended together all see the same one.
CurrentIndexBeforeAwait(usedFilepath) ==
  windowBase[<<currentSequenceName, usedFilepath>>]

\* sequenceReplayState[usedFilepath] || 0, read after the files were awaited.
CurrentIndex(usedFilepath) == replayCounters[currentSequenceName][usedFilepath]

\* A faulty variant: one cursor for the whole sequence.
AdvanceCursorOfSequence(usedFilepath, next) ==
  [replayCounters EXCEPT ![currentSequenceName] = [fp \in FilePaths |-> next]]

\* The counter of the file used, under the current sequence name, is stored.
AdvanceCursor(usedFilepath, next) ==
  [replayCounters EXCEPT ![currentSequenceName][usedFilepath] = next]

\* handleReplay from step 5 on, with the list and the file it resolved: what is
\* sent, and the cursor afterwards.  A stored element without a response object
\* makes `recordedResponse.body` throw after the cursor was advanced; the
\* handler then sends nothing, and the framework either leaves the request
\* unanswered or answers it with its own 500.
ServeResults(sequenceRecordings, usedFilepath) ==
  LET currentIndex == CurrentIndex(usedFilepath) IN
  IF currentIndex >= Len(sequenceRecordings)
  THEN {[kind |-> "Exhausted", status |-> 500, body |-> 0, sends |-> 1,
         next |-> currentIndex]}
  ELSE LET item == sequenceRecordings[currentIndex + 1] IN
       IF ~HasResponse(item)
       THEN {[kind |-> "Threw", status |-> 500, body |-> 0, sends |-> n,
              next |-> NextIndex(currentIndex)] : n \in {0, 1}}
       ELSE IF ~HasStringBody(item)
       THEN {[kind |-> "Malformed", status |-> 500, body |-> 0, sends |-> 1,
              next |-> NextIndex(currentIndex)]}
       ELSE {[kind |-> "Replayed", status |-> item.response.status,
              body |-> item.response.body, sends |-> 1,
              next |-> NextIndex(currentIndex)]}

NotFoundResult ==
  [kind |-> "NotFound", status |-> 500, body |-> 0, sends |-> 1]

Response(req, res) ==
  [mode |-> req.mode, path |-> req.path, seq |-> req.routedSeq,
   upstream |-> req.upstream, kind |-> res.kind, status |-> res.status,
   body |-> res.body, sends |-> res.sends]

\* The replay branch of the main middleware after handleReplay has returned:
\* an explicit return, the request is over.
AfterHandleReplay(req) == IdleReq

LogEntry(res) == [kind |-> res.kind, body |-> res.body]

FinishReplay(r, sequenceRecordings, usedFilepath) ==
  \E res \in ServeResults(sequenceRecordings, usedFilepath) :
    /\ replayCounters' = AdvanceCursor(usedFilepath, res.next)
    /\ replayLog' =
         [replayLog EXCEPT ![<<currentSequenceName, usedFilepath>>] =
            Append(@, LogEntry(res))]
    /\ lastResponse' = Response(reqs[r], res)
    /\ reqs' = [reqs EXCEPT ![r] = AfterHandleReplay(reqs[r])]
    /\ UNCHANGED windowBase

\* A faulty variant: the legacy file is read first.
FirstFilepathLegacy(req) == recordingFilepathOld(req)

\* Steps 3 and 4 of handleReplay: which file is read first, which second.
FirstFilepath(req) == recordingFilepathNew(req)
SecondFilepath(req) == recordingFilepathOld(req)

\* fs.readFile of a path: a file of the directory, or none (ENOENT).
FileAt(filePath) == IF filePath \in FilePaths THEN disk[filePath] ELSE NoFile

\* readRecordings of the current-suffix file has returned.
ReplayReadNew(r) ==
  /\ reqs[r].pc = "readNew"
  /\ LET sequenceRecordings == readRecordings(FileAt(FirstFilepath(reqs[r]))) IN
     IF Len(sequenceRecordings) > 0
     THEN FinishReplay(r, sequenceRecordings, FirstFilepath(reqs[r]))
     ELSE /\ reqs' = [reqs EXCEPT ![r].pc = "readOld"]
          /\ lastResponse' = NoResponseYet
          /\ UNCHANGED <<replayCounters, replayLog, windowBase>>
  /\ UNCHANGED <<currentRecordMode, currentSequenceName,
                 activeSequenceEffectiveMode, inMemoryRecordings, arrays,
                 writeQueue, isWriting, isStopping, loop, disk, act, cleanup,
                 listening, stopPc, uncleared, nOps, enqueuedAfterStop,
                 cleared, recordedLog, nWriteFailed, failedWrite, inbound, codec>>

\* readRecordings of the legacy-suffix file has returned.
ReplayReadOld(r) ==
  /\ reqs[r].pc = "readOld"
  /\ LET sequenceRecordings == readRecordings(FileAt(SecondFilepath(reqs[r]))) IN
     IF Len(sequenceRecordings) > 0
     THEN FinishReplay(r, sequenceRecordings, SecondFilepath(reqs[r]))
     ELSE /\ lastResponse' = Response(reqs[r], NotFoundResult)
          /\ reqs' = [reqs EXCEPT ![r] = AfterHandleReplay(reqs[r])]
          /\ UNCHANGED <<replayCounters, replayLog, windowBase>>
  /\ UNCHANGED <<currentRecordMode, currentSequenceName,
                 activeSequenceEffectiveMode, inMemoryRecordings, arrays,
                 writeQueue, isWriting, isStopping, loop, disk, act, cleanup,
                 listening, stopPc, uncleared, nOps, enqueuedAfterStop,
                 cleared, recordedLog, nWriteFailed, failedWrite, inbound, codec>>

\* onProxyRes: status and headers go to the client, the body starts to stream.
ProxyRes(r) ==
  /\ reqs[r].pc = "forward"
  /\ reqs' = [reqs EXCEPT ![r].pc = "streaming", ![r].body = reqs[r].id]
  /\ lastResponse' = NoResponseYet
  /\ UNCHANGED <<currentRecordMode, currentSequenceName,
                 activeSequenceEffectiveMode, replayCounters,
                 inMemoryRecordings, arrays, writeQueue, isWriting, isStopping,
                 loop, disk, act, cleanup, listening, stopPc, replayLog,
                 windowBase, uncleared, nOps, enqueuedAfterStop, cleared,
                 recordedLog, nWriteFailed, failedWrite, inbound, codec>>

\* onError: the target could not be reached, 502.
ProxyError(r) ==
  /\ reqs[r].pc = "forward"
  /\ lastResponse' = Response(reqs[r], [kind |-> "BadGateway", status |-> 502,
                                        body |-> 0, sends |-> 1])
  /\ reqs' = [reqs EXCEPT ![r] = IdleReq]
  /\ UNCHANGED <<currentRecordMode, currentSequenceName,
                 activeSequenceEffectiveMode, replayCounters,
                 inMemoryRecordings, arrays, writeQueue, isWriting, isStopping,
                 loop, disk, act, cleanup, listening, stopPc, replayLog,
                 windowBase, uncleared, nOps, enqueuedAfterStop, cleared,
                 recordedLog, nWriteFailed, failedWrite, inbound, codec>>

\* The array the 'end' handler appends to: the one in memory for the location,
\* or a new one.
ArrayRefFor(sequenceName, recordingFilename) ==
  IF inMemoryRecordings[sequenceName][recordingFilename] = 0
  THEN Len(arrays) + 1
  ELSE inMemoryRecordings[sequenceName][recordingFilename]

\* A faulty variant: the list is replaced by one holding the new interaction.
PushInteractionOverwrite(ref, interaction) ==
  IF ref > Len(arrays)
  THEN Append(arrays, <<interaction>>)
  ELSE [arrays EXCEPT ![ref] = <<interaction>>]

\* push(interaction) on the in-memory array of the location.
PushInteraction(ref, interaction) ==
  IF ref > Len(arrays)
  THEN Append(arrays, <<interaction>>)
  ELSE [arrays EXCEPT ![ref] = Append(@, interaction)]

\* A faulty variant: the interaction of the failed exchange is kept and queued.
StreamErrorRecorded(r) ==
  /\ reqs[r].pc = "streaming"
  /\ LET recordingFilename == sanitizeFilename(reqs[r].path)
         ref == ArrayRefFor(currentSequenceName, recordingFilename)
         interaction == Interaction(reqs[r].path, 200, reqs[r].body)
     IN /\ arrays' = PushInteraction(ref, interaction)
        /\ inMemoryRecordings' =
             [inMemoryRecordings EXCEPT ![currentSequenceName][recordingFilename] = ref]
        /\ writeQueue' =
             writeRecordingsToFile(<<currentSequenceName, recordingFilename>>, ref)
  /\ lastResponse' = Response(reqs[r], [kind |-> "Aborted", status |-> 200,
                                        body |-> 0, sends |-> 1])
  /\ reqs' = [reqs EXCEPT ![r] = IdleReq]
  /\ UNCHANGED <<currentRecordMode, currentSequenceName,
                 activeSequenceEffectiveMode, replayCounters, isWriting,
                 isStopping, loop, disk, act, cleanup, listening, stopPc,
                 replayLog, windowBase, uncleared, nOps, enqueuedAfterStop,
                 cleared, recordedLog, nWriteFailed, failedWrite, inbound, codec>>

\* proxyRes 'error' after the headers were sent: the response is cut short.
StreamError(r) ==
  /\ reqs[r].pc = "streaming"
  /\ lastResponse' = Response(reqs[r], [kind |-> "Aborted", status |-> 200,
                                        body |-> 0, sends |-> 1])
  /\ reqs' = [reqs EXCEPT ![r] = IdleReq]
  /\ UNCHANGED <<currentRecordMode, currentSequenceName,
                 activeSequenceEffectiveMode, replayCounters,
                 inMemoryRecordings, arrays, writeQueue, isWriting, isStopping,
                 loop, disk, act, cleanup, listening, stopPc, replayLog,
                 windowBase, uncleared, nOps, enqueuedAfterStop, cleared,
                 recordedLog, nWriteFailed, failedWrite, inbound, codec>>

\* A faulty variant: the handler awaits the write of the job it has queued.
AfterStreamEndAwaitingWrite(req) == [req EXCEPT !.pc = "awaitWrite"]

\* The 'end' handler awaits nothing after res.end(): when it returns, the
\* request is over.
AfterStreamEnd(req) == IdleReq

\* proxyRes 'end': the client response is ended, the interaction is appended
\* to the list of (currentSequenceName, file name) and the list is queued.
StreamEnd(r) ==
  /\ reqs[r].pc = "streaming"
  /\ LET recordingFilename == sanitizeFilename(reqs[r].path)
         ref == ArrayRefFor(currentSequenceName, recordingFilename)
         interaction == Interaction(reqs[r].path, 200, reqs[r].body)
     IN /\ arrays' = PushInteraction(ref, interaction)
        /\ inMemoryRecordings' =
             [inMemoryRecordings EXCEPT ![currentSequenceName][recordingFilename] = ref]
        /\ writeQueue' =
             writeRecordingsToFile(<<currentSequenceName, recordingFilename>>, ref)
        /\ recordedLog' =
             [recordedLog EXCEPT ![<<currentSequenceName, recordingFilename>>] =
                Append(@, reqs[r].body)]
  /\ enqueuedAfterStop' = (enqueuedAfterStop \/ isStopping)
  /\ cleared' = cleared \ {currentSequenceName}
  /\ lastResponse' = Response(reqs[r], [kind |-> "Recorded", status |-> 200,
                                        body |-> reqs[r].body, sends |-> 1])
  /\ reqs' = [reqs EXCEPT ![r] = AfterStreamEnd(reqs[r])]
  /\ UNCHANGED <<currentRecordMode, currentSequenceName,
                 activeSequenceEffectiveMode, replayCounters, isWriting,
                 isStopping, loop, disk, act, cleanup, listening, stopPc,
                 replayLog, windowBase, uncleared, nOps, nWriteFailed, failedWrite, inbound, codec>>

\* ------------------------------------------------------------ activation
\* A faulty variant: the override is ignored.
ResolveEffectiveModeGlobal(sequenceOverrideMode, globalMode) == globalMode

\* A faulty variant: any override that is given counts as record.
ResolveEffectiveModeAnyOverride(sequenceOverrideMode, globalMode) ==
  IF sequenceOverrideMode \in {"true", "false"} THEN TRUE ELSE globalMode

\* effectiveMode: the override when it is a boolean, the global mode otherwise.
ResolveEffectiveMode(sequenceOverrideMode, globalMode) ==
  IF sequenceOverrideMode \in {"true", "false"}
  THEN sequenceOverrideMode = "true"
  ELSE globalMode

FilesOf(sequenceName) ==
  {fp \in FilePaths : fp[1] = sequenceName /\ disk[fp].kind # "none"}

\* A faulty variant: only the files ending in .echo.json are removed.
RemovedByRmTargeted(sequenceName) ==
  {fp \in FilePaths : fp[1] = sequenceName /\ EndsWithEchoJson(fp[2])}

\* fs.rm(sequencePath, {recursive, force}): every file of the directory.
RemovedByRm(sequenceName) == {fp \in FilePaths : fp[1] = sequenceName}

\* A faulty variant: the name and the mode are stored before fs.rm is awaited.
internalSetSequenceEager(sequenceName, sequenceOverrideMode) ==
  /\ listening
  /\ stopPc = "none"
  /\ act.pc = "idle"
  /\ nOps < MaxOps
  /\ nOps' = nOps + 1
  /\ activeSequenceEffectiveMode' =
       ResolveEffectiveMode(sequenceOverrideMode, currentRecordMode)
  /\ currentSequenceName' = sequenceName
  /\ IF ResolveEffectiveMode(sequenceOverrideMode, currentRecordMode)
     THEN /\ inMemoryRecordings' =
               [inMemoryRecordings EXCEPT ![sequenceName] = [f \in FileNames |-> 0]]
          /\ act' = [pc |-> "rm", name |-> sequenceName,
                     override |-> sequenceOverrideMode]
          /\ uncleared' = FilesOf(sequenceName)
          /\ recordedLog' =
               [fp \in FilePaths |->
                  IF fp[1] = sequenceName THEN <<>> ELSE recordedLog[fp]]
          /\ cleared' = cleared \cup {sequenceName}
     ELSE /\ act' = [pc |-> "idle", name |-> sequenceName,
                     override |-> sequenceOverrideMode]
          /\ UNCHANGED <<inMemoryRecordings, uncleared, recordedLog, cleared>>
  /\ ResetWindow(replayCounters)
  /\ lastResponse' = NoResponseYet
  /\ UNCHANGED <<currentRecordMode, replayCounters, arrays, writeQueue,
                 isWriting, isStopping, loop, disk, reqs, cleanup, listening,
                 stopPc, enqueuedAfterStop, nWriteFailed, failedWrite, inbound, codec>>

\* setSequence(sequenceName, {recordMode}) up to its first await.  In record
\* mode the in-memory recordings of the sequence are dropped and fs.rm is
\* started; in replay mode nothing is awaited and the call runs to its end.
internalSetSequence(sequenceName, sequenceOverrideMode) ==
  /\ listening
  /\ stopPc = "none"
  /\ act.pc = "idle"
  /\ nOps < MaxOps
  /\ nOps' = nOps + 1
  /\ IF ResolveEffectiveMode(sequenceOverrideMode, currentRecordMode)
     THEN /\ inMemoryRecordings' =
               [inMemoryRecordings EXCEPT ![sequenceName] = [f \in FileNames |-> 0]]
          /\ act' = [pc |-> "rm", name |-> sequenceName,
                     override |-> sequenceOverrideMode]
          /\ uncleared' = FilesOf(sequenceName)
          /\ recordedLog' =
               [fp \in FilePaths |->
                  IF fp[1] = sequenceName THEN <<>> ELSE recordedLog[fp]]
          /\ cleared' = cleared \cup {sequenceName}
          /\ UNCHANGED <<currentSequenceName, activeSequenceEffectiveMode,
                         replayLog, windowBase>>
     ELSE /\ activeSequenceEffectiveMode' = FALSE
          /\ currentSequenceName' = sequenceName
          /\ act' = [pc |-> "idle", name |-> sequenceName,
                     override |-> sequenceOverrideMode]
          /\ ResetWindow(replayCounters)
          /\ UNCHANGED <<inMemoryRecordings, uncleared, recordedLog, cleared>>
  /\ lastResponse' = NoResponseYet
  /\ UNCHANGED <<currentRecordMode, replayCounters, arrays, writeQueue,
                 isWriting, isStopping, loop, disk, reqs, cleanup, listening,
                 stopPc, enqueuedAfterStop, nWriteFailed, failedWrite, inbound, codec>>

\* fs.rm takes effect: the directory of the sequence is gone.
RmDone ==
  /\ act.pc = "rm"
  /\ disk' = [fp \in FilePaths |->
                IF fp \in RemovedByRm(act.name) THEN NoFile ELSE disk[fp]]
  /\ uncleared' = uncleared \ RemovedByRm(act.name)
  /\ act' = [pc |-> "afterRm", name |-> act.name, override |-> act.override,
              removed |-> FilesOf(act.name)]
  /\ ResetWindow(replayCounters)
  /\ lastResponse' = NoResponseYet
  /\ UNCHANGED <<currentRecordMode, currentSequenceName,
                 activeSequenceEffectiveMode, replayCounters,
                 inMemoryRecordings, arrays, writeQueue, isWriting, isStopping,
                 loop, reqs, cleanup, listening, stopPc, nOps,
                 enqueuedAfterStop, cleared, recordedLog, nWriteFailed, failedWrite, inbound, codec>>

\* The rest of internalSetSequence after `await fs.rm`: the effective mode and
\* the sequence name are stored; the replay counters of the sequence are
\* created if absent (an existing counter object is kept).
SetSequenceReturn ==
  /\ act.pc = "afterRm"
  /\ activeSequenceEffectiveMode' = ResolveEffectiveMode(act.override, currentRecordMode)
  /\ currentSequenceName' = act.name
  /\ act' = [pc |-> "idle", name |-> act.name, override |-> act.override]
  /\ ResetWindow(replayCounters)
  /\ lastResponse' = NoResponseYet
  /\ UNCHANGED <<currentRecordMode, replayCounters, inMemoryRecordings, arrays,
                 writeQueue, isWriting, isStopping, loop, disk, reqs, cleanup,
                 listening, stopPc, uncleared, nOps, enqueuedAfterStop,
                 cleared, recordedLog, nWriteFailed, failedWrite, inbound, codec>>

\* POST /echoproxia/sequence/:name: the name is set, nothing else.
ControlEndpoint(name) ==
  /\ CanAccept
  /\ nOps < MaxOps
  /\ nOps' = nOps + 1
  /\ currentSequenceName' = name
  /\ ResetWindow(replayCounters)
  /\ lastResponse' = NoResponseYet
  /\ UNCHANGED <<currentRecordMode, activeSequenceEffectiveMode,
                 replayCounters, inMemoryRecordings, arrays, writeQueue,
                 isWriting, isStopping, loop, disk, reqs, act, cleanup,
                 listening, stopPc, uncleared, enqueuedAfterStop, cleared,
                 recordedLog, nWriteFailed, failedWrite, inbound, codec>>

\* ------------------------------------------------- start-up and shutdown
\* The orders in which fs.readdir may list the names of S.
Listings(S) ==
  {order \in [1..Cardinality(S) -> S] :
     \A i, j \in 1..Cardinality(S) : i # j => order[i] # order[j]}

\* The initial clean-up, started and not awaited by createProxy: fs.readdir
\* of the default sequence, keeping the names that end in .echo.json.
CleanupReaddir ==
  /\ cleanup.pc = "readdir"
  /\ LET filenames == {f \in FileNames :
                         /\ EndsWithEchoJson(f)
                         /\ disk[<<defaultSequenceName, f>>].kind # "none"}
     IN IF filenames = {}
        THEN cleanup' = [pc |-> "done"]
        ELSE \E listing \in Listings(filenames) :
               cleanup' = [pc |-> "unlink", filenames |-> listing]
  /\ lastResponse' = NoResponseYet
  /\ UNCHANGED <<currentRecordMode, currentSequenceName,
                 activeSequenceEffectiveMode, replayCounters,
                 inMemoryRecordings, arrays, writeQueue, isWriting, isStopping,
                 loop, disk, reqs, act, listening, stopPc, replayLog,
                 windowBase, uncleared, nOps, enqueuedAfterStop, cleared,
                 recordedLog, nWriteFailed, failedWrite, inbound, codec>>

\* fs.unlink of the next listed name, whatever the file holds by now.
CleanupUnlink ==
  /\ cleanup.pc = "unlink"
  /\ disk' = [disk EXCEPT ![<<defaultSequenceName, Head(cleanup.filenames)>>] = NoFile]
  /\ uncleared' = uncleared \ {<<defaultSequenceName, Head(cleanup.filenames)>>}
  /\ cleanup' = IF Len(cleanup.filenames) = 1 THEN [pc |-> "done"]
                ELSE [pc |-> "unlink", filenames |-> Tail(cleanup.filenames)]
  /\ ResetWindow(replayCounters)
  /\ lastResponse' = NoResponseYet
  /\ UNCHANGED <<currentRecordMode, currentSequenceName,
                 activeSequenceEffectiveMode, replayCounters,
                 inMemoryRecordings, arrays, writeQueue, isWriting, isStopping,
                 loop, reqs, act, listening, stopPc, nOps, enqueuedAfterStop,
                 cleared, recordedLog, nWriteFailed, failedWrite, inbound, codec>>

\* app.listen has called back: createProxy resolves with the control object.
Listen ==
  /\ ~listening
  /\ listening' = TRUE
  /\ lastResponse' = NoResponseYet
  /\ UNCHANGED <<currentRecordMode, currentSequenceName,
                 activeSequenceEffectiveMode, replayCounters,
                 inMemoryRecordings, arrays, writeQueue, isWriting, isStopping,
                 loop, disk, reqs, act, cleanup, stopPc, replayLog, windowBase,
                 uncleared, nOps, enqueuedAfterStop, cleared, recordedLog,
                 nWriteFailed, failedWrite, inbound, codec>>

\* The condition of stop()'s wait loop, negated.
Drained == writeQueue = <<>> /\ ~isWriting

\* stop(): isStopping is set; if nothing is queued or being written the
\* listener is closed at once, otherwise stop() polls every 10 ms.
StopCall ==
  /\ listening
  /\ stopPc = "none"
  /\ act.pc = "idle"
  /\ nOps < MaxOps
  /\ nOps' = nOps + 1
  /\ isStopping' = TRUE
  /\ stopPc' = IF Drained THEN "closing" ELSE "waiting"
  /\ lastResponse' = NoResponseYet
  /\ UNCHANGED <<currentRecordMode, currentSequenceName,
                 activeSequenceEffectiveMode, replayCounters,
                 inMemoryRecordings, arrays, writeQueue, isWriting, loop, disk,
                 reqs, act, cleanup, listening, replayLog, windowBase,
                 uncleared, enqueuedAfterStop, cleared, recordedLog,
                 nWriteFailed, failedWrite, inbound, codec>>

\* A poll of the wait loop that finds the pipeline drained: runningServer.close.
StopPoll ==
  /\ stopPc = "waiting"
  /\ Drained
  /\ stopPc' = "closing"
  /\ lastResponse' = NoResponseYet
  /\ UNCHANGED <<currentRecordMode, currentSequenceName,
                 activeSequenceEffectiveMode, replayCounters,
                 inMemoryRecordings, arrays, writeQueue, isWriting, isStopping,
                 loop, disk, reqs, act, cleanup, listening, replayLog,
                 windowBase, uncleared, nOps, enqueuedAfterStop, cleared,
                 recordedLog, nWriteFailed, failedWrite, inbound, codec>>

\* The callback of close: every connection has ended; stop() resolves.
StopResolve ==
  /\ stopPc = "closing"
  /\ \A r \in Slots : reqs[r].pc = "idle"
  /\ stopPc' = "resolved"
  /\ listening' = FALSE
  /\ lastResponse' = NoResponseYet
  /\ UNCHANGED <<currentRecordMode, currentSequenceName,
                 activeSequenceEffectiveMode, replayCounters,
                 inMemoryRecordings, arrays, writeQueue, isWriting, isStopping,
                 loop, disk, reqs, act, cleanup, replayLog, windowBase,
                 uncleared, nOps, enqueuedAfterStop, cleared, recordedLog,
                 nWriteFailed, failedWrite, inbound, codec>>

\* ---------------------------------------------------------- specification
Next ==
  \/ processWriteQueue
  \/ WriteFileDone
  \/ WriteFileFail
  \/ \E p \in Paths : Route(p)
  \/ \E r \in Slots : ReplayReadNew(r)
  \/ \E r \in Slots : ReplayReadOld(r)
  \/ \E r \in Slots : ProxyRes(r)
  \/ \E r \in Slots : ProxyError(r)
  \/ \E r \in Slots : StreamError(r)
  \/ \E r \in Slots : StreamEnd(r)
  \/ \E s \in Seqs, o \in Overrides : internalSetSequence(s, o)
  \/ RmDone
  \/ SetSequenceReturn
  \/ \E s \in Seqs : ControlEndpoint(s)
  \/ CleanupReaddir
  \/ CleanupUnlink
  \/ Listen
  \/ StopCall
  \/ StopPoll
  \/ StopResolve

Spec == Init /\ [][Next]_vars

\* The runs of a proxy started in replay mode over a directory that holds
\* recordings, in which requests arrive with their method, query string and
\* body and nothing else happens.
SelectInit ==
  /\ Init
  /\ ~currentRecordMode
  /\ readRecordings(disk[<<defaultSequenceName, NewA>>]) # <<>>

SelectNext ==
  \/ Listen
  \/ \E req \in InboundRequests : RouteInbound(req)
  \/ \E r \in Slots : ReplayReadNew(r)
  \/ \E r \in Slots : ReplayReadOld(r)

SelectSpec == SelectInit /\ [][SelectNext]_vars

\* The runs of a proxy started in record mode over a directory that holds
\* recordings, in which the event loop and the file system do their part: a
\* scheduled iteration of processWriteQueue (setImmediate) is eventually run,
\* and an awaited file operation eventually completes, well or badly.
LiveInit ==
  /\ Init
  /\ currentRecordMode
  /\ readRecordings(disk[<<defaultSequenceName, NewA>>]) # <<>>

LiveSpec ==
  /\ LiveInit
  /\ [][Next]_vars
  /\ WF_vars(processWriteQueue)
  /\ WF_vars(WriteFileDone \/ WriteFileFail)

\* ------------------------------------- the bytes and headers of an exchange
\* The runs above keep of an exchange only a number standing for its body.
\* Here one exchange is followed with its body as bytes and its headers as
\* objects, through the 'end' handler (base64, redaction) and through
\* handleReplay (header filter, decoding).  JSON.stringify and JSON.parse
\* between the two return the strings they are given.
ByteValues == {0, 90, 165, 255}
BodyBytes == UNION {[1..n -> ByteValues] : n \in 0..MaxBodyLen}
Statuses == {200, 404}

\* The 65th character of the base64 alphabet, '='.
Pad == 64

\* Buffer.toString('base64'): three bytes make four characters, a last
\* group of one or two bytes is padded.
RECURSIVE toBase64(_)
toBase64(b) ==
  IF Len(b) = 0 THEN <<>>
  ELSE IF Len(b) = 1
  THEN <<b[1] \div 4, (b[1] % 4) * 16, Pad, Pad>>
  ELSE IF Len(b) = 2
  THEN <<b[1] \div 4, (b[1] % 4) * 16 + (b[2] \div 16), (b[2] % 16) * 4, Pad>>
  ELSE <<b[1] \div 4, (b[1] % 4) * 16 + (b[2] \div 16),
         (b[2] % 16) * 4 + (b[3] \div 64), b[3] % 64>>
       \o toBase64(SubSeq(b, 4, Len(b)))

\* A faulty variant: a group that holds padding is dropped.
RECURSIVE fromBase64WholeGroups(_)
fromBase64WholeGroups(str) ==
  IF Len(str) < 4 \/ str[3] = Pad \/ str[4] = Pad THEN <<>>
  ELSE <<str[1] * 4 + (str[2] \div 16),
         (str[2] % 16) * 16 + (str[3] \div 4),
         (str[3] % 4) * 64 + str[4]>>
       \o fromBase64WholeGroups(SubSeq(str, 5, Len(str)))

\* Buffer.from(str, 'base64'): decoding stops at the padding.
RECURSIVE fromBase64(_)
fromBase64(str) ==
  IF Len(str) < 2 \/ str[1] = Pad \/ str[2] = Pad THEN <<>>
  ELSE IF Len(str) < 3 \/ str[3] = Pad
  THEN <<str[1] * 4 + (str[2] \div 16)>>
  ELSE IF Len(str) < 4 \/ str[4] = Pad
  THEN <<str[1] * 4 + (str[2] \div 16), (str[2] % 16) * 16 + (str[3] \div 4)>>
  ELSE <<str[1] * 4 + (str[2] \div 16),
         (str[2] % 16) * 16 + (str[3] \div 4),
         (str[3] % 4) * 64 + str[4]>>
       \o fromBase64(SubSeq(str, 5, Len(str)))

\* String.prototype.toLowerCase on the names used here.
toLowerCase(name) ==
  CASE name = "Authorization" -> "authorization"
    [] name = "X-Id" -> "x-id"
    [] name = "Content-Length" -> "content-length"
    [] OTHER -> name

RequestHeaderKeys == {"Authorization", "x-id"}
ResponseHeaderKeys == {"content-encoding", "x-id", "Content-Length"}
HeaderValue(key) ==
  CASE key = "Authorization" -> "Bearer t"
    [] key = "content-encoding" -> "gzip"
    [] key = "Content-Length" -> "3"
    [] OTHER -> "7"
HeaderObjects(keys) == {[key \in K |-> HeaderValue(key)] : K \in SUBSET keys}

\* The redactHeaders option as the caller may write it.
RedactInputs == {<<"authorization">>, <<"Authorization">>, <<"X-Id">>, <<>>}

\* headersToRedactInput.map(h => h.toLowerCase())
LowerAll(headersToRedactInput) ==
  [i \in 1..Len(headersToRedactInput) |-> toLowerCase(headersToRedactInput[i])]

includes(list, x) == \E i \in 1..Len(list) : list[i] = x

\* A faulty variant: the header name is compared as it is written.
redactHeadersCaseSensitive(headers, headersToRedact) ==
  [key \in DOMAIN headers |->
     IF includes(headersToRedact, key) THEN "[REDACTED]" ELSE headers[key]]

redactHeaders(headers, headersToRedact) ==
  [key \in DOMAIN headers |->
     IF includes(headersToRedact, toLowerCase(key))
     THEN "[REDACTED]"
     ELSE headers[key]]

\* The headers handleReplay sets on the client response.
ReplayHeaders(headers) ==
  [key \in {k \in DOMAIN headers :
              toLowerCase(k) \notin {"content-length", "transfer-encoding"}}
     |-> headers[key]]

\* Buffer.toString('utf8') on the bytes used here: a byte below 128 is its
\* character; 165 and 255 begin no valid sequence and become U+FFFD each.
ReplacementCharacter == 65533
toUtf8String(buffer) ==
  [i \in 1..Len(buffer) |->
     IF buffer[i] < 128 THEN buffer[i] ELSE ReplacementCharacter]

\* zlib.gunzipSync on the bodies used here: none of them begins with the
\* gzip magic bytes 31, 139, so it throws.
GzipMagic == <<31, 139>>
gunzipThrows(buffer) == Len(buffer) < 2 \/ SubSeq(buffer, 1, 2) # GzipMagic

\* The text stored in place of a body that could not be decompressed,
\* '[Echoproxia: Failed ...]', shortened to '[E]'.
FailedToDecodeText == <<91, 69, 93>>

\* responseBodyPlainText when includePlainTextBody is set: the body,
\* decompressed as its content-encoding says, decoded as UTF-8.
responseBodyPlainText(responseBuffer, responseHeaders) ==
  IF "content-encoding" \in DOMAIN responseHeaders
       /\ responseHeaders["content-encoding"] = "gzip"
       /\ gunzipThrows(responseBuffer)
  THEN FailedToDecodeText
  ELSE toUtf8String(responseBuffer)

\* What a hand may leave in the bodyPlainText field of a stored response.
EditedPlainTexts == {<<>>, <<90>>, FailedToDecodeText}

\* A faulty variant: the text is sent when the recording holds one.
replayBodyFromPlainText(recordedResponse) ==
  IF "bodyPlainText" \in DOMAIN recordedResponse
  THEN recordedResponse.bodyPlainText
  ELSE fromBase64(recordedResponse.body)

\* Buffer.from(recordedResponse.body, 'base64'): the bytes sent on replay.
replayBody(recordedResponse) == fromBase64(recordedResponse.body)

CodecInit ==
  /\ ProxyInit
  /\ currentRecordMode
  /\ \A fp \in FilePaths : disk[fp] = NoFile
  /\ \E b \in BodyBytes, st \in Statuses,
        qh \in HeaderObjects(RequestHeaderKeys),
        ph \in HeaderObjects(ResponseHeaderKeys),
        input \in RedactInputs, plain \in BOOLEAN :
       codec = [pc |-> "upstream", body |-> b, status |-> st,
                requestHeaders |-> qh, responseHeaders |-> ph,
                headersToRedactInput |-> input,
                includePlainTextBody |-> plain]

\* proxyRes 'end': recordedRequest and recordedResponse are built.
RecordInteraction ==
  /\ codec.pc = "upstream"
  /\ LET headersToRedact == LowerAll(codec.headersToRedactInput)
         recordedRequest ==
           [headers |-> redactHeaders(codec.requestHeaders, headersToRedact)]
         headersForRecording ==
           redactHeaders(codec.responseHeaders, headersToRedact)
         recordedResponse ==
           IF codec.includePlainTextBody
           THEN [status |-> codec.status,
                 headers |-> headersForRecording,
                 bodyPlainText |->
                   responseBodyPlainText(codec.body, codec.responseHeaders),
                 body |-> toBase64(codec.body)]
           ELSE [status |-> codec.status,
                 headers |-> headersForRecording,
                 body |-> toBase64(codec.body)]
     IN codec' = [pc |-> "stored", body |-> codec.body, status |-> codec.status,
                  requestHeaders |-> codec.requestHeaders,
                  responseHeaders |-> codec.responseHeaders,
                  headersToRedactInput |-> codec.headersToRedactInput,
                  includePlainTextBody |-> codec.includePlainTextBody,
                  interaction |-> [request |-> recordedRequest,
                                   response |-> recordedResponse]]
  /\ UNCHANGED proxyVars

\* The recording file is edited between the runs: the text of a stored
\* response is replaced.
EditPlainText ==
  /\ codec.pc = "stored"
  /\ "bodyPlainText" \in DOMAIN codec.interaction.response
  /\ \E text \in EditedPlainTexts :
       /\ text # codec.interaction.response.bodyPlainText
       /\ codec' = [codec EXCEPT !.interaction.response.bodyPlainText = text]
  /\ UNCHANGED proxyVars

\* handleReplay: status, headers and the decoded body go to the client.
ReplayInteraction ==
  /\ codec.pc = "stored"
  /\ LET recordedResponse == codec.interaction.response
     IN codec' = [pc |-> "replayed", body |-> codec.body, status |-> codec.status,
                  requestHeaders |-> codec.requestHeaders,
                  responseHeaders |-> codec.responseHeaders,
                  headersToRedactInput |-> codec.headersToRedactInput,
                  includePlainTextBody |-> codec.includePlainTextBody,
                  interaction |-> codec.interaction,
                  cursor |-> NextIndex(0),
                  client |-> [status |-> recordedResponse.status,
                              headers |-> ReplayHeaders(recordedResponse.headers),
                              body |-> replayBody(recordedResponse)]]
  /\ UNCHANGED proxyVars

CodecNext ==
  \/ RecordInteraction
  \/ EditPlainText
  \/ ReplayInteraction

CodecSpec == CodecInit /\ [][CodecNext]_vars

\* ------------------------------------------------------------ properties
WellFormedList(sequenceRecordings) ==
  /\ Len(sequenceRecordings) >= 1
  /\ \A i \in 1..Len(sequenceRecordings) : HasStringBody(sequenceRecordings[i])

\* C1 (FIFO replay): for a cursor that stood at 0 when the current window
\* began (no activation and no file change since) and whose file holds
\* N >= 1 well-formed interactions, the replays answered in the window are
\* the stored interactions 1..N in stored order, and every answer after the
\* Nth is 'Sequence exhausted'.
C1_FifoReplay ==
  \A k \in CursorKeys :
    LET sequenceRecordings == readRecordings(disk[k[2]]) IN
    (windowBase[k] = 0 /\ WellFormedList(sequenceRecordings)) =>
      \A i \in 1..Len(replayLog[k]) :
        replayLog[k][i] =
          IF i <= Len(sequenceRecordings)
          THEN [kind |-> "Replayed", body |-> sequenceRecordings[i].response.body]
          ELSE [kind |-> "Exhausted", body |-> 0]

\* A list of two interactions has been replayed to its end and the third
\* request has been answered.
C1_Witness ==
  \E k \in CursorKeys :
    LET sequenceRecordings == readRecordings(disk[k[2]]) IN
    /\ windowBase[k] = 0
    /\ WellFormedList(sequenceRecordings)
    /\ Len(sequenceRecordings) = 2
    /\ Len(replayLog[k]) = 3
    /\ lastResponse.mode = "replay"
    /\ lastResponse.kind = "Exhausted"

ReplayOutcomes == {"Replayed", "NotFound", "Exhausted", "Malformed"}

\* C2 (replay terminates in the replay handler): a request routed in replay
\* mode never reaches the upstream, and it is answered exactly once, by the
\* replay handler, with one of Replayed, NotFound, Exhausted, MalformedStorage.
C2_ReplayTerminatesInHandler ==
  /\ \A r \in Slots :
       (reqs[r].pc # "idle" /\ reqs[r].mode = "replay") => ~reqs[r].upstream
  /\ lastResponse.mode = "replay" =>
       /\ ~lastResponse.upstream
       /\ lastResponse.kind \in ReplayOutcomes
       /\ lastResponse.sends = 1

\* C3 (drain before stop): stop() has resolved only in states where the write
\* queue is empty and no write is in flight.
C3_DrainBeforeStop == (stopPc = "resolved") => Drained

\* C4 (stop terminates): when every job was queued before stop() was called
\* and no write failed, the write loop does not end while jobs are queued
\* (a loop that has ended never dequeues again, so stop() would poll forever).
C4_StopTerminates ==
  (isStopping /\ ~enqueuedAfterStop /\ nWriteFailed = 0 /\ loop.pc = "dead")
    => writeQueue = <<>>

\* C5 (activation reset): once a record-mode activation of S has returned and
\* as long as no exchange has completed under S since that activation began,
\* no file of S (current or legacy suffix) yields a recording and S has no
\* in-memory list.
C5_ActivationReset ==
  \A sequenceName \in cleared :
    (act.pc = "idle" \/ act.name # sequenceName) =>
    /\ \A fp \in FilePaths :
         fp[1] = sequenceName => readRecordings(disk[fp]) = <<>>
    /\ \A f \in FileNames : inMemoryRecordings[sequenceName][f] = 0

ExpectedMode(override, globalMode) ==
  IF override = "true" THEN TRUE
  ELSE IF override = "false" THEN FALSE
  ELSE globalMode

ModeName(recordMode) == IF recordMode THEN "record" ELSE "replay"

C6_ModeOfActivation ==
  act.pc = "idle" =>
    activeSequenceEffectiveMode = ExpectedMode(act.override, currentRecordMode)

C6_RequestsKeepBranch ==
  \A r \in Slots :
    reqs[r].pc # "idle" =>
      /\ reqs[r].mode = "replay" =>
           (~reqs[r].upstream /\ reqs[r].pc \in {"readNew", "readOld"})
      /\ reqs[r].mode = "record" =>
           (reqs[r].upstream /\ reqs[r].pc \in {"forward", "streaming"})

C6_RoutedInActiveMode ==
  \A r \in Slots :
    (reqs[r].pc = "idle" /\ reqs'[r].pc # "idle") =>
      reqs'[r].mode = ModeName(activeSequenceEffectiveMode)

C6_RecordedIsQueued ==
  (lastResponse'.mode = "record" /\ lastResponse'.kind = "Recorded") =>
    /\ lastResponse'.upstream
    /\ Len(writeQueue') = Len(writeQueue) + 1

\* C6 (effective mode resolution): after an activation has returned the
\* effective mode is the override if one was given and the global mode
\* otherwise (so an earlier override does not persist); a request is routed
\* in the effective mode of that moment and stays in its branch: replay never
\* contacts the upstream, record contacts it and queues a write job when the
\* exchange completes.
C6_EffectiveMode ==
  /\ [](C6_ModeOfActivation /\ C6_RequestsKeepBranch)
  /\ [][C6_RoutedInActiveMode /\ C6_RecordedIsQueued]_vars

\* Under an activation with an override that differs from the global mode, a
\* request is being handled in the mode of the override.
C6_Witness ==
  /\ act.pc = "idle"
  /\ act.override # "undefined"
  /\ activeSequenceEffectiveMode # currentRecordMode
  /\ \E r \in Slots :
       /\ reqs[r].pc # "idle"
       /\ reqs[r].mode = ModeName(activeSequenceEffectiveMode)
       /\ reqs[r].routedSeq = act.name

C7_ClearedBeforeReturn == (act.pc \in {"idle", "afterRm"}) => uncleared = {}

C7_NoSwitchAtStart ==
  (act.pc = "idle" /\ act'.pc = "rm") =>
    UNCHANGED <<currentSequenceName, activeSequenceEffectiveMode>>

C7_NoModeSwitchDuringClear ==
  (act.pc = "rm") => activeSequenceEffectiveMode' = activeSequenceEffectiveMode

C7_RoutedOnlyWhenCleared ==
  (\E r \in Slots : reqs[r].pc = "idle" /\ reqs'[r].pc # "idle") =>
    (uncleared = {} \/ act.pc = "rm")

C8_InitialClearDone == listening => cleanup.pc = "done"

ServedFrom(sequenceRecordings, usedFilepath) ==
  LET currentIndex == replayCounters[currentSequenceName][usedFilepath] IN
  /\ lastResponse'.mode = "replay"
  /\ lastResponse'.kind # "NotFound"
  /\ (lastResponse'.kind = "Exhausted") <=> (currentIndex >= Len(sequenceRecordings))
  /\ lastResponse'.kind = "Replayed" =>
       /\ currentIndex < Len(sequenceRecordings)
       /\ HasStringBody(sequenceRecordings[currentIndex + 1])
       /\ lastResponse'.body = sequenceRecordings[currentIndex + 1].response.body
  /\ \A k \in CursorKeys :
       k # <<currentSequenceName, usedFilepath>> => replayLog'[k] = replayLog[k]

C9_ResolutionStep(r) ==
  LET newList == readRecordings(disk[recordingFilepathNew(reqs[r])])
      oldList == readRecordings(disk[recordingFilepathOld(reqs[r])])
  IN /\ (reqs[r].pc = "readNew" /\ reqs'[r] # reqs[r]) =>
          IF newList # <<>>
          THEN /\ reqs'[r].pc = "idle"
               /\ ServedFrom(newList, recordingFilepathNew(reqs[r]))
          ELSE reqs'[r].pc = "readOld"
     /\ (reqs[r].pc = "readOld" /\ reqs'[r] # reqs[r]) =>
          /\ reqs'[r].pc = "idle"
          /\ IF oldList # <<>>
             THEN ServedFrom(oldList, recordingFilepathOld(reqs[r]))
             ELSE lastResponse'.kind = "NotFound"

\* C9 (storage resolution): when the current-suffix file is read and yields a
\* non-empty list, the request is answered at once from that list (its next
\* interaction, or exhausted), whatever the legacy file holds; when it yields
\* nothing the legacy file is read, and answers the request if it yields a
\* non-empty list; otherwise the answer is NotFound.
C9_StorageResolution == [][\A r \in Slots : C9_ResolutionStep(r)]_vars

\* A request has been answered 'exhausted' from the current-suffix list while
\* the legacy file of the same location holds recordings.
C9_Witness ==
  /\ lastResponse.mode = "replay"
  /\ lastResponse.kind = "Exhausted"
  /\ readRecordings(disk[<<lastResponse.seq, sanitizeFilename(lastResponse.path)>>]) # <<>>
  /\ readRecordings(disk[<<lastResponse.seq,
        recordingFilenameOld(sanitizeFilename(lastResponse.path))>>]) # <<>>

Bodies(sequenceRecordings) ==
  [i \in 1..Len(sequenceRecordings) |-> sequenceRecordings[i].response.body]

\* C10 (recording accumulates in order): when the write pipeline is drained
\* and no write has failed, the file of every location at which exchanges
\* have completed since the latest record activation of its sequence holds
\* exactly those interactions, in the order of completion.
C10_RecordingAccumulates ==
  (Drained /\ nWriteFailed = 0) =>
    \A fp \in FilePaths :
      recordedLog[fp] # <<>> => Bodies(readRecordings(disk[fp])) = recordedLog[fp]

\* C12 (round-trip fidelity): the body a replay sends is, byte for byte, the
\* body the upstream sent when the interaction was recorded, whatever the
\* bytes and whether or not a content-encoding is declared; the status and
\* the content-encoding header are the recorded ones.
C12_RoundTrip ==
  codec.pc = "replayed" =>
    /\ codec.client.body = codec.body
    /\ codec.client.status = codec.status
    /\ "content-encoding" \in DOMAIN codec.responseHeaders =>
         /\ "content-encoding" \in DOMAIN codec.client.headers
         /\ codec.client.headers["content-encoding"] =
              codec.responseHeaders["content-encoding"]

\* A body of two bytes (one padded group), not valid UTF-8, declared gzip,
\* has been recorded and replayed.
C12_Witness ==
  /\ codec.pc = "replayed"
  /\ Len(codec.body) = 2
  /\ codec.body[1] = 255
  /\ "content-encoding" \in DOMAIN codec.responseHeaders
  /\ codec.client.body = codec.body

RedactSet(headersToRedactInput) ==
  {toLowerCase(headersToRedactInput[i]) : i \in 1..Len(headersToRedactInput)}

Redacted(stored, original, redactSet) ==
  /\ DOMAIN stored = DOMAIN original
  /\ \A key \in DOMAIN original :
       stored[key] = IF toLowerCase(key) \in redactSet
                     THEN "[REDACTED]"
                     ELSE original[key]

\* C13 (redaction): in a stored interaction the request headers and the
\* response headers keep their names; a header whose lowercased name is in
\* the redact set has the value '[REDACTED]', every other header its own.
C13_Redaction ==
  codec.pc \in {"stored", "replayed"} =>
    /\ Redacted(codec.interaction.request.headers, codec.requestHeaders,
                RedactSet(codec.headersToRedactInput))
    /\ Redacted(codec.interaction.response.headers, codec.responseHeaders,
                RedactSet(codec.headersToRedactInput))

\* An Authorization header has been stored redacted next to a header that
\* kept its value, under a redact option written in upper-case initial.
C13_Witness ==
  /\ codec.pc = "stored"
  /\ codec.headersToRedactInput = <<"Authorization">>
  /\ DOMAIN codec.requestHeaders = {"Authorization", "x-id"}
  /\ codec.interaction.request.headers["Authorization"] = "[REDACTED]"
  /\ codec.interaction.request.headers["x-id"] = "7"

C11_FailureStep(r) ==
  (reqs[r].pc \in {"forward", "streaming"} /\ reqs'[r].pc = "idle"
     /\ lastResponse'.kind # "Recorded") =>
    /\ lastResponse'.mode = "record"
    /\ IF reqs[r].pc = "forward"
       THEN lastResponse'.kind = "BadGateway" /\ lastResponse'.status = 502
       ELSE lastResponse'.kind = "Aborted"
    /\ UNCHANGED <<arrays, inMemoryRecordings, writeQueue, recordedLog, disk>>

\* C11 (upstream failure is not recorded): a record-mode request that ends
\* without a completed exchange ends with 502 when the upstream failed before
\* any header was sent and with a cut-short body afterwards; in that step no
\* in-memory list changes and no write job is queued.
C11_UpstreamFailure == [][\A r \in Slots : C11_FailureStep(r)]_vars

\* An exchange has been cut short by an upstream error and nothing is held
\* in memory or queued.
C11_Witness ==
  /\ lastResponse.mode = "record"
  /\ lastResponse.kind = "Aborted"
  /\ arrays = <<>>
  /\ writeQueue = <<>>

WriteFailedStep == nWriteFailed' = nWriteFailed + 1

\* C14 (persistence failure isolation): when the write of a job fails no
\* client response and no request changes, the writer-active flag is
\* cleared, the jobs queued behind stay queued and, when there are such
\* jobs, the loop is scheduled again to process them.
C14_FailureIsolation ==
  [][WriteFailedStep =>
       /\ lastResponse'.mode = "none"
       /\ UNCHANGED <<reqs, writeQueue, disk>>
       /\ isWriting' = FALSE
       /\ writeQueue # <<>> => loop'.pc = "scheduled"]_vars

ActivationOrPostStep ==
  /\ act.pc = "idle"
  /\ nOps' = nOps + 1
  /\ UNCHANGED <<reqs, stopPc, loop>>

C15_ReplayStep ==
  (ActivationOrPostStep /\ ~ExpectedMode(act'.override, currentRecordMode)) =>
    /\ act'.pc = "idle"
    /\ UNCHANGED <<disk, inMemoryRecordings, arrays, writeQueue>>

C15_ClearOnlyInRecord ==
  act.pc \in {"rm", "afterRm"} => ExpectedMode(act.override, currentRecordMode)

\* C15 (replay activation is non-destructive): an activation whose effective
\* mode is replay starts no clear and leaves every file, every in-memory
\* list and the write queue as they were; a clear is pending only for an
\* activation whose effective mode is record.
C15_ReplayActivation == []C15_ClearOnlyInRecord /\ [][C15_ReplayStep]_vars

\* Under global mode record a sequence holding a recording in memory and on
\* disk has been activated with the override replay.
C15_Witness ==
  /\ currentRecordMode
  /\ act.pc = "idle"
  /\ act.override = "false"
  /\ ~activeSequenceEffectiveMode
  /\ \E f \in FileNames :
       /\ inMemoryRecordings[act.name][f] # 0
       /\ disk[<<act.name, f>>].kind = "json"

\* C16 (nothing after stop): once stop() has been called no request is
\* routed, no interaction is appended and no write job is queued.
C16_NothingAfterStop ==
  [][isStopping =>
       /\ \A r \in Slots : reqs[r].pc = "idle" => reqs'[r].pc = "idle"
       /\ arrays' = arrays
       /\ Len(writeQueue') <= Len(writeQueue)]_vars

RmStep == act.pc = "rm" /\ act'.pc = "afterRm"
UnlinkStep == cleanup.pc = "unlink" /\ cleanup' # cleanup

C18_SingleWriter ==
  /\ loop.pc \in {"scheduled", "writeFile", "dead"}
  /\ isWriting <=> (loop.pc = "writeFile")

\* A job is being written while another one waits in the queue.
C18_Witness ==
  /\ isWriting
  /\ loop.pc = "writeFile"
  /\ writeQueue # <<>>

C19_QueueStep ==
  \/ writeQueue' = writeQueue
  \/ /\ Len(writeQueue') = Len(writeQueue) + 1
     /\ SubSeq(writeQueue', 1, Len(writeQueue)) = writeQueue
  \/ /\ writeQueue # <<>>
     /\ writeQueue' = Tail(writeQueue)
     /\ loop'.pc = "writeFile"
     /\ loop'.job = Head(writeQueue)

C19_WriteStep ==
  (loop.pc = "writeFile" /\ loop'.pc # "writeFile") =>
    \A fp \in FilePaths : fp # loop.job.filePath => disk'[fp] = disk[fp]

\* C19 (FIFO jobs): the queue changes only by a job added at its end or by
\* its head being taken, the job taken is the one written next, and the
\* write touches the file of that job only.
C19_FifoJobs == [][C19_QueueStep /\ C19_WriteStep]_vars

\* A job for one file is being written while a job for another file waits.
C19_Witness ==
  /\ loop.pc = "writeFile"
  /\ writeQueue # <<>>
  /\ Head(writeQueue).filePath # loop.job.filePath

ListOf(heap, ref) == IF ref = 0 THEN <<>> ELSE heap[ref]

C20_RecordedStep ==
  (lastResponse'.mode = "record" /\ lastResponse'.kind = "Recorded") =>
    LET recordingFilename == sanitizeFilename(lastResponse'.path)
        before == ListOf(arrays, inMemoryRecordings[currentSequenceName][recordingFilename])
        after == ListOf(arrays', inMemoryRecordings'[currentSequenceName][recordingFilename])
    IN /\ after = Append(before,
                         Interaction(lastResponse'.path, 200, lastResponse'.body))
       /\ \A s \in Seqs, f \in FileNames :
            <<s, f>> # <<currentSequenceName, recordingFilename>> =>
              ListOf(arrays', inMemoryRecordings'[s][f]) =
                ListOf(arrays, inMemoryRecordings[s][f])
       /\ Len(writeQueue') = Len(writeQueue) + 1
       /\ SubSeq(writeQueue', 1, Len(writeQueue)) = writeQueue
       /\ writeQueue'[Len(writeQueue')].filePath =
            <<currentSequenceName, recordingFilename>>
       /\ arrays'[writeQueue'[Len(writeQueue')].recordingsArray] = after
       /\ UNCHANGED <<disk, loop, isWriting>>

\* C20 (one append, one job): the step that completes a record-mode exchange
\* adds exactly its interaction at the end of the in-memory list of the
\* location under the current sequence (an absent list counts as empty),
\* changes no other list, adds exactly one job for the file of that location
\* at the end of the queue, and involves no disk operation.
C20_OneAppendOneJob == [][C20_RecordedStep]_vars

\* A second exchange for a location has completed: its list holds two
\* interactions.
C20_Witness ==
  /\ lastResponse.mode = "record"
  /\ lastResponse.kind = "Recorded"
  /\ \E i \in 1..Len(arrays) : Len(arrays[i]) = 2

\* C21 (snapshot at enqueue): the list a queued job will write does not
\* change while the job waits in the queue, whatever is appended meanwhile.
C21_SnapshotAtEnqueue ==
  [][\A i \in 1..Len(writeQueue) :
       arrays'[writeQueue[i].recordingsArray] =
         arrays[writeQueue[i].recordingsArray]]_vars

WriteAppliedStep ==
  /\ loop.pc = "writeFile"
  /\ loop'.pc # "writeFile"
  /\ nWriteFailed' = nWriteFailed

\* The list of a job is no longer the in-memory list of its location: a
\* record activation of the sequence has dropped it since the job was queued.
StaleJob(job) ==
  job.recordingsArray # inMemoryRecordings[job.filePath[1]][job.filePath[2]]

\* C22 (no resurrection by stale jobs): a job queued for S before a record
\* activation of S is applied to disk, if at all, before the clear of that
\* activation has taken effect.
C22_NoResurrection ==
  [][(WriteAppliedStep /\ StaleJob(loop.job)) =>
       (act.pc = "rm" /\ act.name = loop.job.filePath[1])]_vars

\* C23 (recording attribution): the interaction of a completed record-mode
\* exchange is appended to a list of, and queued for a file of, the sequence
\* under which its request was routed.
C23_Attribution ==
  [][(lastResponse'.mode = "record" /\ lastResponse'.kind = "Recorded") =>
       LET job == writeQueue'[Len(writeQueue')]
       IN /\ Len(writeQueue') = Len(writeQueue) + 1
          /\ job.filePath[1] = lastResponse'.seq
          /\ inMemoryRecordings'[lastResponse'.seq][job.filePath[2]] =
               job.recordingsArray]_vars

\* C24 (replay sequences are read-only): in a step taken while the active
\* sequence S is in effective mode replay, with no activation under way and
\* the start-up clean-up over, no in-memory list of S changes, no job for a
\* file of S is queued and no file of S changes.
C24_ReplayReadOnly ==
  [][(~activeSequenceEffectiveMode /\ ~activeSequenceEffectiveMode'
        /\ currentSequenceName' = currentSequenceName
        /\ act.pc = "idle" /\ act'.pc = "idle"
        /\ cleanup.pc = "done") =>
       /\ \A f \in FileNames :
            /\ ListOf(arrays', inMemoryRecordings'[currentSequenceName][f]) =
                 ListOf(arrays, inMemoryRecordings[currentSequenceName][f])
            /\ disk'[<<currentSequenceName, f>>] = disk[<<currentSequenceName, f>>]
       /\ Len(writeQueue') > Len(writeQueue) =>
            writeQueue'[Len(writeQueue')].filePath[1] # currentSequenceName]_vars

Cursor(rc, k) == rc[k[1]][k[2]]

\* C25 (cursor atomicity): between two activations or file changes, the
\* i-th request answered from the list of a location under a cursor has
\* read the cursor value that the i-1 requests before it left behind: an
\* answer that carries an interaction carries the i-th one after the value
\* the cursor had at first, so no interaction is served twice, and the
\* cursor has advanced once for each such answer.
C25_CursorAtomicity ==
  \A k \in CursorKeys :
    LET sequenceRecordings == readRecordings(disk[k[2]])
        served == {i \in 1..Len(replayLog[k]) : replayLog[k][i].kind # "Exhausted"}
    IN /\ Cursor(replayCounters, k) = windowBase[k] + Cardinality(served)
       /\ \A i \in served :
            /\ windowBase[k] + i <= Len(sequenceRecordings)
            /\ replayLog[k][i].kind = "Replayed" =>
                 replayLog[k][i].body =
                   sequenceRecordings[windowBase[k] + i].response.body

\* Two requests have been answered with the first and the second interaction
\* of a location while a request routed before the second of them is still
\* suspended in flight.
C25_Witness ==
  /\ reqs[1].pc = "idle"
  /\ reqs[2].pc \in {"readNew", "readOld"}
  /\ lastResponse.mode = "replay"
  /\ \E k \in CursorKeys :
       /\ windowBase[k] = 0
       /\ Len(replayLog[k]) = 2
       /\ replayLog[k][1].kind = "Replayed"
       /\ replayLog[k][2].kind = "Replayed"
       /\ replayLog[k][1].body # replayLog[k][2].body

\* C26 (cursor increments): no cursor ever decreases; a replay answered with
\* an interaction advances exactly one cursor by one; a replay answered
\* NotFound, Exhausted or MalformedStorage, and any step that answers no
\* replay, leaves every cursor as it was.
C26_CursorIncrements ==
  [][/\ \A k \in CursorKeys :
          Cursor(replayCounters', k) >= Cursor(replayCounters, k)
     /\ (lastResponse'.mode = "replay" /\ lastResponse'.kind = "Replayed") =>
          \E k \in CursorKeys :
            /\ Cursor(replayCounters', k) = Cursor(replayCounters, k) + 1
            /\ \A j \in CursorKeys \ {k} :
                 Cursor(replayCounters', j) = Cursor(replayCounters, j)
     /\ (lastResponse'.mode = "replay"
           /\ lastResponse'.kind \in {"NotFound", "Exhausted", "Malformed"}) =>
          replayCounters' = replayCounters
     /\ lastResponse'.mode # "replay" => replayCounters' = replayCounters]_vars

ActivationReturns ==
  \/ act.pc = "afterRm" /\ act'.pc = "idle"
  \/ /\ ActivationOrPostStep
     /\ act'.pc = "idle"
     /\ ~ExpectedMode(act'.override, currentRecordMode)
     /\ ~activeSequenceEffectiveMode'
     /\ currentSequenceName' = act'.name

\* C27 (activation resets cursors): when an activation of S returns, the
\* cursor of every location of S is 0.
C27_ActivationResetsCursors ==
  [][ActivationReturns =>
       \A k \in CursorKeys : k[1] = act'.name => Cursor(replayCounters', k) = 0]_vars

C28_Step ==
  LET changed == {k \in CursorKeys :
                    Cursor(replayCounters', k) # Cursor(replayCounters, k)}
  IN changed # {} =>
       \E r \in Slots :
         /\ reqs[r].pc \in {"readNew", "readOld"}
         /\ reqs'[r].pc = "idle"
         /\ lastResponse'.mode = "replay"
         /\ \/ changed = {<<currentSequenceName, recordingFilepathNew(reqs[r])>>}
            \/ changed = {<<currentSequenceName, recordingFilepathOld(reqs[r])>>}

\* C28 (cursor independence): a step changes at most one cursor, and only
\* when it answers a replay request: the cursor, under the current sequence
\* name, of the file of the request's location that was used.  Every other
\* cursor, and every cursor in a step of an activation, is unchanged.
C28_CursorIndependence == [][C28_Step]_vars

\* A location of s1 has been replayed once and s2 has been activated since:
\* the cursor of s1 stands at 1, every other cursor at 0.
C28_Witness ==
  /\ act.pc = "idle"
  /\ act.name = "s2"
  /\ currentSequenceName = "s2"
  /\ \E k \in CursorKeys :
       /\ k[1] = "s1"
       /\ Cursor(replayCounters, k) = 1
       /\ \A j \in CursorKeys \ {k} : Cursor(replayCounters, j) = 0

C29_Step(r) ==
  (reqs[r].pc \in {"readNew", "readOld"} /\ reqs'[r].pc = "idle"
     /\ lastResponse'.kind = "Replayed") =>
    \E usedFilepath \in {recordingFilepathNew(reqs[r]), recordingFilepathOld(reqs[r])} :
      LET k == <<reqs[r].routedSeq, usedFilepath>>
          sequenceRecordings == readRecordings(disk[usedFilepath])
      IN /\ Cursor(replayCounters', k) = Cursor(replayCounters, k) + 1
         /\ Cursor(replayCounters, k) < Len(sequenceRecordings)
         /\ lastResponse'.body =
              sequenceRecordings[Cursor(replayCounters, k) + 1].response.body

\* C29 (the cursor belongs to the sequence of the file): a replay request
\* answered with an interaction has read and advanced the cursor kept under
\* the sequence whose file it read, the one it was routed under.
C29_CursorOfRoutedSequence == [][\A r \in Slots : C29_Step(r)]_vars

ReadFailures == {"garbage", "object", "unreadable"}

C30_Step(r) ==
  /\ (reqs[r].pc = "readNew" /\ reqs'[r] # reqs[r]
        /\ disk[recordingFilepathNew(reqs[r])].kind \in ReadFailures) =>
       /\ reqs'[r].pc = "readOld"
       /\ lastResponse'.mode = "none"
       /\ replayCounters' = replayCounters
  /\ (reqs[r].pc = "readOld" /\ reqs'[r] # reqs[r]
        /\ disk[recordingFilepathOld(reqs[r])].kind \in ReadFailures) =>
       /\ reqs'[r].pc = "idle"
       /\ lastResponse'.mode = "replay"
       /\ lastResponse'.kind = "NotFound"
       /\ lastResponse'.status = 500
       /\ lastResponse'.sends = 1
       /\ replayCounters' = replayCounters

\* C30 (read failures fail open): a file that cannot be read, is not valid
\* JSON or does not hold an array counts as an empty list: for the current
\* file the request goes on to the legacy file without an answer, for the
\* legacy file the request is answered NotFound (500), once, by the handler.
C30_ReadFailuresFailOpen == [][\A r \in Slots : C30_Step(r)]_vars

\* A request for a location whose current file is unreadable and whose legacy
\* file is not JSON has been answered NotFound.
C30_Witness ==
  /\ lastResponse.mode = "replay"
  /\ lastResponse.kind = "NotFound"
  /\ disk[<<lastResponse.seq, sanitizeFilename(lastResponse.path)>>] = Unreadable
  /\ disk[<<lastResponse.seq,
            recordingFilenameOld(sanitizeFilename(lastResponse.path))>>] = Garbage

\* C31 (malformed stored interactions): a replay request that finds at the
\* cursor an element it cannot replay (no response object, or a response
\* without a string body) is answered by the handler, once, with status 500,
\* and the upstream is not contacted.
C31_MalformedResolved ==
  [][(lastResponse'.mode = "replay"
        /\ lastResponse'.kind \notin {"Replayed", "NotFound", "Exhausted"}) =>
       /\ lastResponse'.kind = "Malformed"
       /\ lastResponse'.status = 500
       /\ lastResponse'.sends = 1
       /\ ~lastResponse'.upstream]_vars

\* C34 (transitions only by activation): the sequence name or the effective
\* mode changes only in the step in which an activation returns, and then
\* to the name and the resolved mode of that activation.
C34_OnlyActivation ==
  [][(currentSequenceName' # currentSequenceName
        \/ activeSequenceEffectiveMode' # activeSequenceEffectiveMode) =>
       /\ act'.pc = "idle"
       /\ act.pc = "afterRm" \/ (act.pc = "idle" /\ nOps' = nOps + 1)
       /\ currentSequenceName' = act'.name
       /\ activeSequenceEffectiveMode' =
            ExpectedMode(act'.override, currentRecordMode)]_vars

C33_NoRequestAwaitsWrite ==
  \A r \in Slots :
    reqs[r].pc \in {"idle", "forward", "streaming", "readNew", "readOld"}

C33_Step ==
  /\ (lastResponse'.mode = "record" /\ lastResponse'.kind = "Recorded") =>
       /\ \E r \in Slots : reqs[r].pc = "streaming" /\ reqs'[r].pc = "idle"
       /\ lastResponse'.sends = 1
       /\ Len(writeQueue') = Len(writeQueue) + 1
       /\ UNCHANGED <<loop, disk, isWriting>>
  /\ loop' # loop => (reqs' = reqs /\ lastResponse'.mode = "none")

\* C33 (the response does not wait for the write): the step that completes
\* a record-mode exchange ends the client response and leaves the request
\* in its terminal state while the job it has queued is still in the queue;
\* no request is ever in a state that waits for a write, and no step of the
\* write loop, successful or failed, touches a request or a response.
C33_ResponseBeforeWrite ==
  []C33_NoRequestAwaitsWrite /\ [][C33_Step]_vars

\* An exchange has completed and every request is over while its job waits
\* behind a write that is still in flight.
C33_Witness ==
  /\ lastResponse.mode = "record"
  /\ lastResponse.kind = "Recorded"
  /\ \A r \in Slots : reqs[r].pc = "idle"
  /\ loop.pc = "writeFile"
  /\ writeQueue # <<>>

\* The write applied in this step is of a job for the location and the
\* in-memory list of which a write has failed before.
C35_WriteAfterFailure ==
  /\ WriteAppliedStep
  /\ failedWrite[loop.job.filePath].recordingsArray # 0
  /\ failedWrite[loop.job.filePath].recordingsArray = loop.job.recordingsArray

C35_QueuedFor(queue, recordingsArray) ==
  Cardinality({i \in 1..Len(queue) : queue[i].recordingsArray = recordingsArray})

\* C35 (recovery after a failed write): when, after the write of a job for a
\* location has failed, a job for the same list of that location is written,
\* the file holds the list as it is in memory, up to the interactions whose
\* own jobs are still queued; it holds in particular every interaction the
\* failed job was writing.
C35_Recovery ==
  [][C35_WriteAfterFailure =>
       LET fp == loop.job.filePath
           failed == failedWrite[fp].data
           inMemory == arrays'[loop.job.recordingsArray]
           written == readRecordings(disk'[fp])
       IN /\ disk'[fp] = JsonFile(written)
          /\ Len(written) >= Len(failed)
          /\ SubSeq(written, 1, Len(failed)) = failed
          /\ Len(written) <= Len(inMemory)
          /\ SubSeq(inMemory, 1, Len(written)) = written
          /\ Len(written) >=
               Len(inMemory) - C35_QueuedFor(writeQueue', loop.job.recordingsArray)]_vars

\* The write of the job of a first exchange has failed, the job of a second
\* exchange at the same location has been written, and the file holds both.
C35_Witness ==
  \E fp \in FilePaths :
    /\ failedWrite[fp].recordingsArray # 0
    /\ Len(failedWrite[fp].data) = 1
    /\ Len(arrays[failedWrite[fp].recordingsArray]) = 2
    /\ disk[fp] = JsonFile(arrays[failedWrite[fp].recordingsArray])
    /\ Drained

\* A step of the write loop taken while stop() has not been called leaves
\* the next iteration scheduled or a write in flight: the loop goes on after
\* an empty queue and after every job, written or failed.
C36_LoopStep ==
  (loop' # loop /\ ~isStopping) =>
    /\ loop'.pc \in {"scheduled", "writeFile"}
    /\ loop.pc = "writeFile" => (loop'.pc = "scheduled" /\ ~isWriting')
    /\ (loop.pc = "scheduled" /\ writeQueue = <<>>) => loop'.pc = "scheduled"
    /\ (loop.pc = "scheduled" /\ writeQueue # <<>>) =>
         (loop'.pc = "writeFile" /\ loop'.job = Head(writeQueue)
            /\ writeQueue' = Tail(writeQueue))

\* C36 (pipeline liveness): unless stop() is called, the loop never ends, the
\* job at the head of a queue of any length is eventually dequeued, a write in
\* flight eventually ends, and so the queue is eventually drained with every
\* job written or failed; each step of the loop reschedules it.
C36_PipelineLiveness ==
  /\ [](~isStopping => loop.pc # "dead")
  /\ [][C36_LoopStep]_vars
  /\ \A n \in 1..MaxOps :
       (Len(writeQueue) = n) ~> (Len(writeQueue) < n \/ isStopping)
  /\ isWriting ~> (~isWriting \/ isStopping)
  /\ (writeQueue # <<>>) ~> (Drained \/ isStopping)

\* Two exchanges at one location have completed while stop() was not called,
\* both jobs have been processed and the file holds both interactions.
C36_Witness ==
  \E fp \in FilePaths :
    /\ Len(recordedLog[fp]) = 2
    /\ Bodies(readRecordings(disk[fp])) = recordedLog[fp]
    /\ nWriteFailed = 0
    /\ Drained
    /\ ~isStopping
    /\ loop.pc = "scheduled"

\* The requests that arrived for a path name, whatever else they carried,
\* and those of them that are answered.
C32_Arrived(p) == {i \in 1..Len(inbound) : inbound[i].pathname = p}
C32_InFlight(p) == {r \in Slots : reqs[r].pc # "idle" /\ reqs[r].path = p}
C32_Answered(p) == Cardinality(C32_Arrived(p)) - Cardinality(C32_InFlight(p))

\* The file a path resolves to under a sequence: the current one when it
\* holds interactions, the legacy one otherwise.
C32_UsedFilepath(s, p) ==
  IF readRecordings(disk[<<s, sanitizeFilename(p)>>]) # <<>>
  THEN <<s, sanitizeFilename(p)>>
  ELSE <<s, recordingFilenameOld(sanitizeFilename(p))>>

\* C32 (selection by sequence, storage key and cursor only): the requests
\* that arrive for one path under the active sequence, whatever their
\* method, query string and body, are answered from one list under one
\* cursor: the i-th of them to be answered gets the i-th interaction of the
\* file the path resolves to, or the end-of-sequence failure past its end,
\* and the cursor counts the interactions given out.
C32_SelectionByKey ==
  \A p \in Paths :
    LET usedFilepath == C32_UsedFilepath(currentSequenceName, p)
        sequenceRecordings == readRecordings(disk[usedFilepath])
        answers == replayLog[<<currentSequenceName, usedFilepath>>]
    IN /\ C32_Answered(p) >= 0
       /\ sequenceRecordings # <<>> =>
            /\ Len(answers) = C32_Answered(p)
            /\ \A i \in 1..Len(answers) :
                 answers[i] =
                   IF i <= Len(sequenceRecordings)
                   THEN [kind |-> "Replayed",
                         body |-> sequenceRecordings[i].response.body]
                   ELSE [kind |-> "Exhausted", body |-> 0]
            /\ replayCounters[currentSequenceName][usedFilepath] =
                 IF Len(answers) <= Len(sequenceRecordings)
                 THEN Len(answers) ELSE Len(sequenceRecordings)
       /\ sequenceRecordings = <<>> =>
            \A fp \in FilePaths :
              fp[2] \in {sanitizeFilename(p),
                         recordingFilenameOld(sanitizeFilename(p))} =>
                replayLog[<<currentSequenceName, fp>>] = <<>>

\* Two requests for one path that differ in method, query string and body
\* have been answered with the first and the second interaction of its file.
C32_Witness ==
  /\ Len(inbound) = 2
  /\ inbound[1].pathname = PathA /\ inbound[2].pathname = PathA
  /\ inbound[1].method # inbound[2].method
  /\ inbound[1].search # inbound[2].search
  /\ inbound[1].body # inbound[2].body
  /\ \A r \in Slots : reqs[r].pc = "idle"
  /\ replayLog[<<"s1", <<"s1", NewA>>>>] =
       <<[kind |-> "Replayed", body |-> 101], [kind |-> "Replayed", body |-> 102]>>

\* C37 (plaintext fields do not influence replay): what is stored as
\* response.body, what the client is sent on replay (status, headers, body
\* bytes) and where the cursor stands afterwards are determined by the
\* upstream exchange and the redaction list alone: they are the same with
\* and without includePlainTextBody, and whatever the bodyPlainText field of
\* the stored response holds.
C37_PlainTextIgnored ==
  /\ codec.pc \in {"stored", "replayed"} =>
       /\ codec.interaction.response.body = toBase64(codec.body)
       /\ "bodyPlainText" \in DOMAIN codec.interaction.response
            <=> codec.includePlainTextBody
  /\ codec.pc = "replayed" =>
       /\ codec.client =
            [status |-> codec.status,
             headers |->
               ReplayHeaders(redactHeaders(codec.responseHeaders,
                                           LowerAll(codec.headersToRedactInput))),
             body |-> codec.body]
       /\ codec.cursor = 1

\* An exchange recorded with includePlainTextBody has been replayed from a
\* recording whose text differs from its bytes.
C37_Witness ==
  /\ codec.pc = "replayed"
  /\ codec.includePlainTextBody
  /\ Len(codec.body) = MaxBodyLen
  /\ codec.interaction.response.bodyPlainText # codec.body
  /\ codec.client.body = codec.body

====
